---- MODULE Spec2Model ----
(***************************************************************************)
(* Model of the PES commentary list codec (PESCommentaryListParser):       *)
(* parse (decode), createPlayer / updatePlayer / deletePlayer and save     *)
(* (encode), with the byte-level helpers of utils.ts.                      *)
(*                                                                         *)
(* A JavaScript string is a sequence of code points (BMP, lone surrogates  *)
(* allowed); a Uint8Array is a sequence of numbers 0..255.  Offsets are    *)
(* 0-based as in the source; sequence positions are offset + 1.            *)
(***************************************************************************)
EXTENDS Integers, Sequences, FiniteSets, TLC

(***************************************************************************)
(* Bounds of the model                                                     *)
(***************************************************************************)
\* largest number of whole records in an input file
MaxFileRecs == 2
\* largest length of playerList that createPlayer is explored up to
MaxRecords == 2

(***************************************************************************)
(* parser_config.ts                                                        *)
(***************************************************************************)
PES2021Config ==
  [ COMMENTARY_PREFIX       |-> <<69, 78, 95, 65, 49, 95, 80, 48, 95, 82>>,
    COMMENTARY_START_OFFSET |-> 144,
    COMMENTARY_NAME_LENGTH  |-> 16,
    PLAYER_NAME_OFFSET      |-> 16,
    PLAYER_NAME_LENGTH      |-> 64,
    RECORD_SIZE             |-> 96 ]

PES2017Config ==
  [ COMMENTARY_PREFIX       |-> <<69, 95, 65, 49, 95, 80, 48, 95, 82>>,
    COMMENTARY_START_OFFSET |-> 144,
    COMMENTARY_NAME_LENGTH  |-> 16,
    PLAYER_NAME_OFFSET      |-> 0,
    PLAYER_NAME_LENGTH      |-> 64,
    RECORD_SIZE             |-> 80 ]

Configs == {PES2021Config, PES2017Config}

(***************************************************************************)
(* Typed-array and string primitives                                       *)
(***************************************************************************)
Min(a, b) == IF a < b THEN a ELSE b

Max(a, b) == IF a > b THEN a ELSE b

\* n copies of x
Rep(x, n) == [i \in 1..n |-> x]

\* TypedArray.prototype.slice(start, end) / String.prototype.slice for
\* 0 <= start: the elements at offsets start .. min(end, length) - 1
Slice(buf, start, end) == SubSeq(buf, start + 1, Min(end, Len(buf)))

\* buffer[i]: the element at offset i, or -1 (undefined) outside the array
At(buf, i) == IF i >= 0 /\ i < Len(buf) THEN buf[i + 1] ELSE -1

\* TextEncoder.encode of one code point (a lone surrogate becomes U+FFFD)
Utf8Char(c) ==
  IF c < 128 THEN <<c>>
  ELSE IF c < 2048 THEN <<192 + (c \div 64), 128 + (c % 64)>>
  ELSE IF c >= 55296 /\ c <= 57343 THEN <<239, 191, 189>>
  ELSE IF c < 65536
    THEN <<224 + (c \div 4096), 128 + ((c \div 64) % 64), 128 + (c % 64)>>
  ELSE <<240 + (c \div 262144), 128 + ((c \div 4096) % 64),
         128 + ((c \div 64) % 64), 128 + (c % 64)>>

RECURSIVE TextEncode(_)
\* TextEncoder.encode(str): the UTF-8 bytes of the code points of the string,
\* in order (the string is split in halves to keep the evaluation shallow)
TextEncode(str) ==
  IF str = <<>> THEN <<>>
  ELSE IF Len(str) = 1 THEN Utf8Char(str[1])
  ELSE TextEncode(SubSeq(str, 1, Len(str) \div 2))
         \o TextEncode(SubSeq(str, (Len(str) \div 2) + 1, Len(str)))

\* a UTF-8 continuation byte within [lo, hi]
InRange(b, lo, hi) == b >= lo /\ b <= hi

\* One step of the WHATWG UTF-8 decoder in replacement mode at offset i of
\* bytes b: <<code point, bytes consumed>>.  An ill-formed or truncated
\* sequence yields U+FFFD and decoding resumes at the byte that broke it.
Utf8Step(b, i) ==
  LET c  == At(b, i)
      c1 == At(b, i + 1)
      c2 == At(b, i + 2)
      c3 == At(b, i + 3)
      lo == IF c = 224 THEN 160 ELSE IF c = 240 THEN 144 ELSE 128
      hi == IF c = 237 THEN 159 ELSE IF c = 244 THEN 143 ELSE 191
  IN  IF c < 128 THEN <<c, 1>>
      ELSE IF InRange(c, 194, 223) THEN
        IF InRange(c1, 128, 191)
          THEN <<(c - 192) * 64 + (c1 - 128), 2>>
          ELSE <<65533, 1>>
      ELSE IF InRange(c, 224, 239) THEN
        IF ~InRange(c1, lo, hi) THEN <<65533, 1>>
        ELSE IF ~InRange(c2, 128, 191) THEN <<65533, 2>>
        ELSE <<(c - 224) * 4096 + (c1 - 128) * 64 + (c2 - 128), 3>>
      ELSE IF InRange(c, 240, 244) THEN
        IF ~InRange(c1, lo, hi) THEN <<65533, 1>>
        ELSE IF ~InRange(c2, 128, 191) THEN <<65533, 2>>
        ELSE IF ~InRange(c3, 128, 191) THEN <<65533, 3>>
        ELSE <<(c - 240) * 262144 + (c1 - 128) * 4096 + (c2 - 128) * 64
                + (c3 - 128), 4>>
      ELSE <<65533, 1>>

RECURSIVE Utf8Decode(_, _)
\* the code points decoded from offset i of bytes b on
Utf8Decode(b, i) ==
  IF i >= Len(b) THEN <<>>
  ELSE <<Utf8Step(b, i)[1]>> \o Utf8Decode(b, i + Utf8Step(b, i)[2])

\* textDecoder.decode(buffer) of new TextDecoder("utf-8"): ignoreBOM is
\* false, so a leading EF BB BF is dropped; fatal is false
TextDecode(buffer) ==
  IF At(buffer, 0) = 239 /\ At(buffer, 1) = 187 /\ At(buffer, 2) = 191
    THEN Utf8Decode(buffer, 3)
    ELSE Utf8Decode(buffer, 0)

\* ECMAScript LineTerminator code points: "." in a RegExp without the s flag
\* matches anything else
LineTerminators == {10, 13, 8232, 8233}

\* ECMAScript WhiteSpace and LineTerminator code points, stripped by trim()
WhiteSpace ==
  {9, 10, 11, 12, 13, 32, 160, 5760, 8232, 8233, 8239, 8287, 12288, 65279}
    \cup (8192..8202)

RECURSIVE TrimStart(_)
TrimStart(s) ==
  IF s # <<>> /\ Head(s) \in WhiteSpace THEN TrimStart(Tail(s)) ELSE s

RECURSIVE TrimEnd(_)
TrimEnd(s) ==
  IF s # <<>> /\ s[Len(s)] \in WhiteSpace
    THEN TrimEnd(SubSeq(s, 1, Len(s) - 1)) ELSE s

\* String.prototype.trim
Trim(s) == TrimEnd(TrimStart(s))

\* the offsets at which /\0.*$/ can match: a null code point with no line
\* terminator anywhere after it
NullMatches(s) ==
  {i \in 0..(Len(s) - 1) :
     /\ s[i + 1] = 0
     /\ \A j \in (i + 1)..(Len(s) - 1) : s[j + 1] \notin LineTerminators}

\* str.replace(/\0.*$/, ""): the leftmost match, if any, is removed
ReplaceNullTail(s) ==
  IF NullMatches(s) = {} THEN s
  ELSE LET i == CHOOSE k \in NullMatches(s) : \A m \in NullMatches(s) : k <= m
       IN  SubSeq(s, 1, i)

(***************************************************************************)
(* utils.ts                                                                *)
(***************************************************************************)
cleanString(buffer) == Trim(ReplaceNullTail(TextDecode(buffer)))

readString(buffer, offset, length) ==
  cleanString(Slice(buffer, offset, offset + length))

isBinaryValid(buffer) ==
  /\ At(buffer, 0) = 83
  /\ At(buffer, 1) = 69
  /\ At(buffer, 2) = 80
  /\ At(buffer, 3) = 68
  /\ LET s == Slice(buffer, 24, 36) IN \A k \in 1..Len(s) : s[k] = 0

\* DataView.setUint32(0, num, true): the four bytes of num, little-endian
\* (num is a length or a count, 0 <= num < 2^31, so no reduction modulo 2^32
\* takes place)
decimalToBytes(num) ==
  <<num % 256, (num \div 256) % 256, (num \div 65536) % 256,
    (num \div 16777216) % 256>>

\* the code points of String.prototype.toUpperCase applied to one code point,
\* for ASCII, Latin-1, dotless i and long s
ToUpperCase(c) ==
  IF c >= 97 /\ c <= 122 THEN <<c - 32>>
  ELSE IF c = 223 THEN <<83, 83>>
  ELSE IF c = 255 THEN <<376>>
  ELSE IF c = 181 THEN <<924>>
  ELSE IF c >= 224 /\ c <= 254 /\ c # 247 THEN <<c - 32>>
  ELSE IF c = 305 THEN <<73>>
  ELSE IF c = 383 THEN <<83>>
  ELSE <<c>>

\* player.playerName.charAt(0).toUpperCase()
FirstCharUpper(playerName) ==
  IF playerName = <<>> THEN <<>> ELSE ToUpperCase(Head(playerName))

\* the letter of the alphabet (0 = a) a Latin-1 letter has as its base, or -1
BaseLetter(c) ==
  IF c >= 65 /\ c <= 90 THEN c - 65
  ELSE IF c >= 97 /\ c <= 122 THEN c - 97
  ELSE IF c \in (192..197) \cup (224..229) THEN 0
  ELSE IF c \in {199, 231} THEN 2
  ELSE IF c \in (200..203) \cup (232..235) THEN 4
  ELSE IF c \in (204..207) \cup (236..239) THEN 8
  ELSE IF c \in {209, 241} THEN 13
  ELSE IF c \in (210..214) \cup (242..246) THEN 14
  ELSE IF c \in (217..220) \cup (249..252) THEN 20
  ELSE IF c \in {221, 253, 255} THEN 24
  ELSE -1

\* Primary collation weight of a code point in the "en" collation (CLDR root
\* order: ignorable controls, white space, punctuation, digits, letters by
\* base letter); 0 = ignorable.  Code points outside these classes are
\* ordered after the letters by code point.
CollationWeight(c) ==
  IF c \in (0..8) \cup (14..31) \cup (127..159) THEN 0
  ELSE IF c >= 9 /\ c <= 13 THEN c - 8
  ELSE IF c = 32 THEN 9
  ELSE IF c = 95 THEN 20
  ELSE IF c = 45 THEN 21
  ELSE IF c = 46 THEN 27
  ELSE IF c >= 48 /\ c <= 57 THEN 200 + (c - 48)
  ELSE IF BaseLetter(c) >= 0 THEN 300 + BaseLetter(c)
  ELSE IF c < 128 THEN 30 + c
  ELSE 1000 + c

\* a code point with a primary weight
Weighted(c) == CollationWeight(c) # 0

\* the primary weights of a string, ignorable code points dropped
CollationKey(s) ==
  LET kept == SelectSeq(s, Weighted)
  IN  [k \in 1..Len(kept) |-> CollationWeight(kept[k])]

\* lexicographic comparison of two weight sequences: -1, 0 or 1
SeqCompare(x, y) ==
  LET n == Min(Len(x), Len(y))
      diff == {k \in 1..n : x[k] # y[k]}
      d == CHOOSE k \in diff : \A m \in diff : k <= m
  IN  IF diff # {} THEN (IF x[d] < y[d] THEN -1 ELSE 1)
      ELSE IF Len(x) < Len(y) THEN -1
      ELSE IF Len(x) > Len(y) THEN 1
      ELSE 0

\* a.localeCompare(b, "en", { sensitivity: "base" })
localeCompare(a, b) == SeqCompare(CollationKey(a), CollationKey(b))

\* the comparator handed to Array.prototype.sort
ComparePlayers(a, b) == localeCompare(a.playerName, b.playerName)

\* InsertSorted that puts p before the elements it compares equal to
RECURSIVE InsertSorted_Unstable(_, _)
InsertSorted_Unstable(s, p) ==
  IF s = <<>> THEN <<p>>
  ELSE IF ComparePlayers(s[Len(s)], p) < 0 THEN Append(s, p)
  ELSE Append(InsertSorted_Unstable(SubSeq(s, 1, Len(s) - 1), p), s[Len(s)])

RECURSIVE InsertSorted(_, _)
\* insert p into the sorted sequence s after every element not greater than it
InsertSorted(s, p) ==
  IF s = <<>> THEN <<p>>
  ELSE IF ComparePlayers(s[Len(s)], p) <= 0 THEN Append(s, p)
  ELSE Append(InsertSorted(SubSeq(s, 1, Len(s) - 1), p), s[Len(s)])

RECURSIVE SortPlayers(_)
\* [...players].sort(comparator): Array.prototype.sort is stable
SortPlayers(players) ==
  IF players = <<>> THEN <<>>
  ELSE InsertSorted(SortPlayers(SubSeq(players, 1, Len(players) - 1)),
                    players[Len(players)])

\* the keys "A".."Z" of counts, as code points, in insertion order
Letters == [i \in 1..26 |-> 64 + i]

\* CountLetters with every first character that is no letter counted under Z
CountLetters_OthersInZ(sorted) ==
  [L \in 65..90 |->
     Cardinality({k \in 1..Len(sorted) :
                    \/ FirstCharUpper(sorted[k].playerName) = <<L>>
                    \/ /\ L = 90
                       /\ \A M \in 65..90 :
                            FirstCharUpper(sorted[k].playerName) # <<M>>})]

\* counts[letter] after the forEach: a first character that is no key of
\* counts is counted nowhere
CountLetters(sorted) ==
  [L \in 65..90 |->
     Cardinality({k \in 1..Len(sorted) :
                    FirstCharUpper(sorted[k].playerName) = <<L>>})]

sortAndCountPlayers(players) ==
  LET sorted == SortPlayers(players)
  IN  [sorted |-> sorted, counts |-> CountLetters(sorted)]

RECURSIVE DecimalDigits(_)
\* the decimal digits of a natural number, as code points
DecimalDigits(n) ==
  IF n < 10 THEN <<48 + n>> ELSE Append(DecimalDigits(n \div 10), 48 + (n % 10))

\* String(num) for an integer
NumberToString(num) ==
  IF num < 0 THEN <<45>> \o DecimalDigits(0 - num) ELSE DecimalDigits(num)

\* formatTo6String(num): zero-padded to 6 characters, the last 6 kept
formatTo6String(num) ==
  LET s == Rep(48, Max(0, 6 - Len(NumberToString(num)))) \o NumberToString(num)
  IN  SubSeq(s, Len(s) - 5, Len(s))

(***************************************************************************)
(* PESCommentaryListParser                                                 *)
(***************************************************************************)
\* Error messages thrown by the class, by the name the error taxonomy gives
ErrTooSmall == "TooSmall"

ErrInvalidFile == "InvalidFormat"

ErrInvalidName == "InvalidName"

ErrInvalidId == "InvalidId"

ErrDuplicateKey == "DuplicateKey"

ErrNotFound == "NotFound"

NoMetadata == [first |-> <<>>, second |-> <<>>]

\* ParseLoop that also stops after as many records as the count field at
\* offset 16 says
RECURSIVE ParseLoop_Counted(_, _, _, _)
ParseLoop_Counted(fileBuffer, cfg, pointer, players) ==
  IF /\ pointer + cfg.RECORD_SIZE <= Len(fileBuffer)
     /\ Len(players) < fileBuffer[17] + 256 * fileBuffer[18]
    THEN LET commentaryName ==
               readString(fileBuffer, pointer, cfg.COMMENTARY_NAME_LENGTH)
             playerName ==
               readString(fileBuffer,
                          pointer + cfg.PLAYER_NAME_OFFSET
                            + cfg.COMMENTARY_NAME_LENGTH,
                          cfg.PLAYER_NAME_LENGTH)
         IN  ParseLoop_Counted(fileBuffer, cfg, pointer + cfg.RECORD_SIZE,
                               Append(players,
                                      [commentaryName |-> commentaryName,
                                       playerName |-> playerName]))
    ELSE players

\* ParseLoop that stops unless a whole record and one more byte fit
RECURSIVE ParseLoop_Strict(_, _, _, _)
ParseLoop_Strict(fileBuffer, cfg, pointer, players) ==
  IF pointer + cfg.RECORD_SIZE < Len(fileBuffer)
    THEN LET commentaryName ==
               readString(fileBuffer, pointer, cfg.COMMENTARY_NAME_LENGTH)
             playerName ==
               readString(fileBuffer,
                          pointer + cfg.PLAYER_NAME_OFFSET
                            + cfg.COMMENTARY_NAME_LENGTH,
                          cfg.PLAYER_NAME_LENGTH)
         IN  ParseLoop_Strict(fileBuffer, cfg, pointer + cfg.RECORD_SIZE,
                              Append(players,
                                     [commentaryName |-> commentaryName,
                                      playerName |-> playerName]))
    ELSE players

RECURSIVE ParseLoop(_, _, _, _)
\* the while loop of parse: one record per RECORD_SIZE bytes while a whole
\* record fits
ParseLoop(fileBuffer, cfg, pointer, players) ==
  IF pointer + cfg.RECORD_SIZE <= Len(fileBuffer)
    THEN LET commentaryName ==
               readString(fileBuffer, pointer, cfg.COMMENTARY_NAME_LENGTH)
             playerName ==
               readString(fileBuffer,
                          pointer + cfg.PLAYER_NAME_OFFSET
                            + cfg.COMMENTARY_NAME_LENGTH,
                          cfg.PLAYER_NAME_LENGTH)
         IN  ParseLoop(fileBuffer, cfg, pointer + cfg.RECORD_SIZE,
                       Append(players, [commentaryName |-> commentaryName,
                                        playerName |-> playerName]))
    ELSE players

\* Parse with the format check made before the length check
Parse_FormatFirst(fileBuffer, cfg) ==
  IF ~isBinaryValid(fileBuffer)
    THEN [err |-> ErrInvalidFile, metadata |-> NoMetadata, players |-> <<>>]
  ELSE IF Len(fileBuffer) < cfg.COMMENTARY_START_OFFSET
    THEN [err |-> ErrTooSmall, metadata |-> NoMetadata, players |-> <<>>]
  ELSE [err |-> "none",
        metadata |-> [first |-> Slice(fileBuffer, 0, 16),
                      second |-> Slice(fileBuffer, 20, 36)],
        players |-> ParseLoop(fileBuffer, cfg, cfg.COMMENTARY_START_OFFSET,
                              <<>>)]

\* static parse(file, pesConfig): the thrown error, or the metadata and the
\* player list of the new instance
Parse(fileBuffer, cfg) ==
  IF Len(fileBuffer) < cfg.COMMENTARY_START_OFFSET
    THEN [err |-> ErrTooSmall, metadata |-> NoMetadata, players |-> <<>>]
  ELSE IF ~isBinaryValid(fileBuffer)
    THEN [err |-> ErrInvalidFile, metadata |-> NoMetadata, players |-> <<>>]
  ELSE [err |-> "none",
        metadata |-> [first |-> Slice(fileBuffer, 0, 16),
                      second |-> Slice(fileBuffer, 20, 36)],
        players |-> ParseLoop(fileBuffer, cfg, cfg.COMMENTARY_START_OFFSET,
                              <<>>)]

\* buildCommentaryName that pads the id to six digits but keeps a longer one
\* whole
buildCommentaryName_PadOnly(cfg, commentaryId) ==
  cfg.COMMENTARY_PREFIX
    \o Rep(48, Max(0, 6 - Len(NumberToString(commentaryId))))
    \o NumberToString(commentaryId)

\* buildCommentaryName(commentaryId): the prefix and the six-digit id
buildCommentaryName(cfg, commentaryId) ==
  cfg.COMMENTARY_PREFIX \o formatTo6String(commentaryId)

\* playerList.findIndex(player => player.commentaryName === commentaryName):
\* the 0-based index of the first match, or -1
FindIndex(players, commentaryName) ==
  LET hits == {k \in 1..Len(players) :
                 players[k].commentaryName = commentaryName}
  IN  IF hits = {} THEN -1
      ELSE (CHOOSE k \in hits : \A m \in hits : k <= m) - 1

\* Array.prototype.splice(index, 1)
Splice1(players, index) ==
  SubSeq(players, 1, index) \o SubSeq(players, index + 2, Len(players))

\* TypedArray.prototype.set(source, offset): a RangeError is thrown when the
\* source does not fit, and the target is left as it was
SetFits(target, source, offset) == offset + Len(source) <= Len(target)

SetBytes(target, source, offset) ==
  SubSeq(target, 1, offset) \o source
    \o SubSeq(target, offset + Len(source) + 1, Len(target))

\* the state of save(): the buffer and whether a set() has thrown
BufSet(b, source, offset) ==
  IF b.thrown \/ ~SetFits(b.bytes, source, offset)
    THEN [bytes |-> b.bytes, thrown |-> TRUE]
    ELSE [bytes |-> SetBytes(b.bytes, source, offset), thrown |-> FALSE]

\* NewBuffer sized by the two field widths instead of RECORD_SIZE
NewBuffer_FieldWidths(cfg, n) ==
  [bytes |-> Rep(0, cfg.COMMENTARY_START_OFFSET
                      + n * (cfg.COMMENTARY_NAME_LENGTH + cfg.PLAYER_NAME_LENGTH)),
   thrown |-> FALSE]

\* new ArrayBuffer(COMMENTARY_START_OFFSET + playerList.length * RECORD_SIZE),
\* zero-filled
NewBuffer(cfg, n) ==
  [bytes |-> Rep(0, cfg.COMMENTARY_START_OFFSET + n * cfg.RECORD_SIZE),
   thrown |-> FALSE]

\* WriteHeader with the record count written at 24, after metadata.second
WriteHeader_CountAt24(b, meta, n) ==
  BufSet(BufSet(BufSet(b, meta.first, 0), meta.second, 20),
         decimalToBytes(n), 24)

\* WriteHeader with metadata.second written at 16 and the count at 32
WriteHeader_Swapped(b, meta, n) ==
  BufSet(BufSet(BufSet(b, meta.first, 0), meta.second, 16),
         decimalToBytes(n), 32)

\* "Write header": metadata.first at 0, the record count at 16,
\* metadata.second at 20
WriteHeader(b, meta, n) ==
  BufSet(BufSet(BufSet(b, meta.first, 0), decimalToBytes(n), 16),
         meta.second, 20)

\* WriteIndex with the count of each letter instead of the running sum
RECURSIVE WriteIndex_PerLetter(_, _, _, _, _)
WriteIndex_PerLetter(b, counts, i, sum, alphabetPointer) ==
  IF i > 26 THEN b
  ELSE WriteIndex_PerLetter(
         BufSet(b, decimalToBytes(counts[Letters[i]]), alphabetPointer),
         counts, i + 1, sum, alphabetPointer + 4)

RECURSIVE WriteIndex(_, _, _, _, _)
\* Object.values(counts).forEach: the running sum of the 26 letter counts,
\* each written at alphabetPointer, which advances by 4
WriteIndex(b, counts, i, sum, alphabetPointer) ==
  IF i > 26 THEN b
  ELSE LET sum2 == sum + counts[Letters[i]]
       IN  WriteIndex(BufSet(b, decimalToBytes(sum2), alphabetPointer),
                      counts, i + 1, sum2, alphabetPointer + 4)

\* WriteTotals without the write at 136
WriteTotals_Only140(b, n) == BufSet(b, decimalToBytes(n), 140)

\* "Write total counts": the record count at 136 and at 140
WriteTotals(b, n) ==
  BufSet(BufSet(b, decimalToBytes(n), 136), decimalToBytes(n), 140)

\* WriteRecords with the name written whole, not sliced to its width
RECURSIVE WriteRecords_NameUnsliced(_, _, _, _, _)
WriteRecords_NameUnsliced(b, cfg, sorted, i, pointer) ==
  IF i > Len(sorted) THEN b
  ELSE LET commentaryName == TextEncode(sorted[i].commentaryName)
           playerName == TextEncode(sorted[i].playerName)
           b1 == BufSet(b, Slice(commentaryName, 0, cfg.COMMENTARY_NAME_LENGTH),
                        pointer)
           b2 == BufSet(b1, playerName, pointer + cfg.COMMENTARY_NAME_LENGTH)
       IN  WriteRecords_NameUnsliced(b2, cfg, sorted, i + 1,
                                     pointer + cfg.RECORD_SIZE)

RECURSIVE WriteRecords(_, _, _, _, _)
\* sorted.forEach: the key and the name of each record, each sliced to its
\* width, at pointer and pointer + COMMENTARY_NAME_LENGTH
WriteRecords(b, cfg, sorted, i, pointer) ==
  IF i > Len(sorted) THEN b
  ELSE LET commentaryName == TextEncode(sorted[i].commentaryName)
           playerName == TextEncode(sorted[i].playerName)
           b1 == BufSet(b, Slice(commentaryName, 0, cfg.COMMENTARY_NAME_LENGTH),
                        pointer)
           b2 == BufSet(b1,
                        Slice(playerName, 0,
                              cfg.PLAYER_NAME_OFFSET + cfg.PLAYER_NAME_LENGTH),
                        pointer + cfg.COMMENTARY_NAME_LENGTH)
       IN  WriteRecords(b2, cfg, sorted, i + 1, pointer + cfg.RECORD_SIZE)

\* save() up to the end of the forEach over counts: the header and the 26
\* running sums are written
SaveIndexed(meta, cfg, players) ==
  WriteIndex(WriteHeader(NewBuffer(cfg, Len(players)), meta, Len(players)),
             sortAndCountPlayers(players).counts, 1, 0, 36)

\* save() up to "Write player records": the total counts are written too
SaveHeader(meta, cfg, players) ==
  WriteTotals(SaveIndexed(meta, cfg, players), Len(players))

\* save(): the returned buffer, or thrown = TRUE
Save(meta, cfg, players) ==
  WriteRecords(SaveHeader(meta, cfg, players), cfg,
               sortAndCountPlayers(players).sorted, 1,
               cfg.COMMENTARY_START_OFFSET)

(***************************************************************************)
(* Inputs: strings, ids and files                                          *)
(***************************************************************************)
\* "Ana", "bob", "Bob", "Zed", "9x", "éva", " al "
StrAna == <<65, 110, 97>>

StrBobLower == <<98, 111, 98>>

StrBob == <<66, 111, 98>>

StrZed == <<90, 101, 100>>

StrDigit == <<57, 120>>

StrAccent == <<233, 118, 97>>

StrPadded == <<32, 97, 108, 32>>

\* "", " " and "\t \n": the names createPlayer must reject
StrEmpty == <<>>

StrBlank == <<32>>

\* the name bytes "Yo\0x\ny": a null followed by a line terminator
BytesNullNewline == <<89, 111, 0, 120, 10, 121>>

\* the ids handed to createPlayer, updatePlayer and deletePlayer
Ids == {-1, 0, 57123, 999999, 1000000}

\* the names handed to createPlayer
CreateNames == {StrEmpty, StrBlank, StrAna}

\* the names handed to updatePlayer
UpdateNames == {StrEmpty, StrBobLower}

\* one stride of a file: the key field, the padding and the name field
Stride(cfg, keyBytes, nameBytes) ==
  LET key == Slice(keyBytes, 0, cfg.COMMENTARY_NAME_LENGTH)
      name == Slice(nameBytes, 0, cfg.PLAYER_NAME_LENGTH)
  IN  key \o Rep(0, cfg.COMMENTARY_NAME_LENGTH - Len(key))
        \o Rep(0, cfg.PLAYER_NAME_OFFSET)
        \o name
        \o Rep(0, cfg.RECORD_SIZE - cfg.COMMENTARY_NAME_LENGTH
                    - cfg.PLAYER_NAME_OFFSET - Len(name))

RECURSIVE Strides(_, _)
\* the strides of a sequence of records (id, name bytes) or (key bytes, name
\* bytes)
Strides(cfg, recs) ==
  IF recs = <<>> THEN <<>>
  ELSE LET r == Head(recs)
           key == IF "id" \in DOMAIN r
                    THEN TextEncode(buildCommentaryName(cfg, r.id))
                    ELSE r.key
       IN  Stride(cfg, key, r.name) \o Strides(cfg, Tail(recs))

\* A file: the magic, 12 opaque bytes, the count field, 4 opaque bytes, the
\* reserved bytes [24,36), the index region, the records and a trailing
\* partial stride; cut to cut bytes when cut >= 0.
MkFile(cfg, magic, fill, reserved, recs, trailing, cut) ==
  LET whole == magic \o Rep(fill, 12)
                 \o decimalToBytes(Len(recs) + fill)
                 \o Rep(fill, 4) \o Rep(reserved, 12)
                 \o Rep(fill, cfg.COMMENTARY_START_OFFSET - 36)
                 \o Strides(cfg, recs)
                 \o Rep(fill, trailing)
  IN  IF cut >= 0 THEN Slice(whole, 0, cut) ELSE whole

Magic == <<83, 69, 80, 68>>

BadMagic == <<83, 69, 80, 69>>

\* the records files are made of: (id, name bytes)
RecAna == [id |-> 1, name |-> TextEncode(StrAna)]

RecBob == [id |-> 2, name |-> TextEncode(StrBob)]

RecZedDup == [id |-> 1, name |-> TextEncode(StrZed)]

RecDigit == [id |-> 57123, name |-> TextEncode(StrDigit)]

RecAccent == [id |-> 3, name |-> TextEncode(StrAccent)]

RecNull == [id |-> 4, name |-> BytesNullNewline]

RecPadded == [id |-> 5, name |-> TextEncode(StrPadded)]

\* a second record with the key of RecDigit
RecDigitDup == [id |-> 57123, name |-> TextEncode(StrZed)]

\* a record whose key field and the first 30 bytes of whose name field hold
\* the byte FF, which is no UTF-8: each byte decodes to U+FFFD, which encodes
\* to three bytes, so the key and the name outgrow their fields
RecGarbage == [key |-> Rep(255, 16), name |-> Rep(255, 30)]

FileRecs ==
  {RecAna, RecBob, RecZedDup, RecDigit, RecAccent, RecNull, RecPadded,
   RecGarbage}

\* the sequences of at most n elements of S
SeqsUpTo(S, n) == UNION {[1..k -> S] : k \in 0..n}

\* the files parse is run on: well-formed files of up to MaxFileRecs records
\* with and without a trailing partial stride, files with a bad magic or a
\* non-zero reserved byte, and files shorter than the header
WideFiles(cfg) ==
  {MkFile(cfg, Magic, fill, 0, recs, trailing, -1) :
     fill \in {0}, trailing \in {0, 10}, recs \in SeqsUpTo(FileRecs, MaxFileRecs)}
  \cup {MkFile(cfg, Magic, 7, 0, recs, 0, -1) :
     recs \in SeqsUpTo({RecAna, RecDigit}, MaxFileRecs)}
  \cup {MkFile(cfg, magic, 0, reserved, <<RecAna>>, 0, -1) :
     magic \in {Magic, BadMagic}, reserved \in {0, 1}}
  \cup {MkFile(cfg, magic, 0, reserved, <<RecAna>>, 0, cut) :
     magic \in {Magic, BadMagic}, reserved \in {0, 1}, cut \in {0, 3, 30, 100, 143}}

\* the files the mutation operations are explored from
FewFiles(cfg) ==
  {MkFile(cfg, Magic, 0, 0, <<>>, 0, -1),
   MkFile(cfg, Magic, 7, 0, <<RecDigit>>, 10, -1),
   MkFile(cfg, Magic, 0, 0, <<RecDigit, RecDigitDup>>, 0, -1),
   MkFile(cfg, BadMagic, 0, 0, <<RecAna>>, 0, -1),
   MkFile(cfg, Magic, 0, 1, <<RecAna>>, 0, -1),
   MkFile(cfg, BadMagic, 0, 0, <<>>, 0, 100)}

(***************************************************************************)
(* State                                                                   *)
(***************************************************************************)
VARIABLES
  file,        \* the bytes of the File handed to parse
  pesConfig,   \* the PESConfig handed to parse
  pc,          \* "start": no instance yet; "ready": parse returned an
               \* instance; "failed": parse threw
  metadata,    \* this.metadata
  playerList,  \* this.playerList
  lastCall,    \* the last call made: operation and arguments
  before,      \* this.playerList when the last call was made
  result       \* what the last call threw (err) or returned (value)

vars == <<file, pesConfig, pc, metadata, playerList, lastCall, before, result>>

Call(op, id, name) == [op |-> op, id |-> id, name |-> name]

Returned(value) == [err |-> "none", value |-> value]

Threw(err) == [err |-> err, value |-> <<>>]

NoInstance ==
  /\ pc = "start"
  /\ metadata = NoMetadata
  /\ playerList = <<>>
  /\ lastCall = Call("none", 0, <<>>)
  /\ before = <<>>
  /\ result = Returned(<<>>)

Init ==
  /\ pesConfig \in Configs
  /\ file \in FewFiles(pesConfig)
  /\ NoInstance

InitFiles ==
  /\ pesConfig \in Configs
  /\ file \in WideFiles(pesConfig)
  /\ NoInstance

(***************************************************************************)
(* Operations                                                              *)
(***************************************************************************)
parse ==
  /\ pc = "start"
  /\ LET r == Parse(file, pesConfig)
     IN  /\ pc' = IF r.err = "none" THEN "ready" ELSE "failed"
         /\ metadata' = r.metadata
         /\ playerList' = r.players
         /\ result' = IF r.err = "none" THEN Returned(<<>>) ELSE Threw(r.err)
  /\ lastCall' = Call("parse", 0, <<>>)
  /\ before' = playerList
  /\ UNCHANGED <<file, pesConfig>>

\* CreateError without the lower bound on the id
CreateError_NoLowerBound(players, cfg, commentaryId, playerName) ==
  IF Trim(playerName) = <<>> THEN ErrInvalidName
  ELSE IF commentaryId > 999999 THEN ErrInvalidId
  ELSE IF FindIndex(players, buildCommentaryName(cfg, commentaryId)) # -1
    THEN ErrDuplicateKey
  ELSE "none"

\* what createPlayer({commentaryId, playerName}) throws, or "none"
CreateError(players, cfg, commentaryId, playerName) ==
  IF Trim(playerName) = <<>> THEN ErrInvalidName
  ELSE IF commentaryId < 0 \/ commentaryId > 999999 THEN ErrInvalidId
  ELSE IF FindIndex(players, buildCommentaryName(cfg, commentaryId)) # -1
    THEN ErrDuplicateKey
  ELSE "none"

\* CreateList with unshift in place of push
CreateList_Unshift(players, cfg, commentaryId, playerName) ==
  <<[commentaryName |-> buildCommentaryName(cfg, commentaryId),
     playerName |-> playerName]>> \o players

\* this.playerList after a createPlayer that does not throw
CreateList(players, cfg, commentaryId, playerName) ==
  Append(players, [commentaryName |-> buildCommentaryName(cfg, commentaryId),
                   playerName |-> playerName])

createPlayer(commentaryId, playerName) ==
  /\ pc = "ready"
  /\ LET err == CreateError(playerList, pesConfig, commentaryId, playerName)
     IN  /\ err # "none" \/ Len(playerList) < MaxRecords
         /\ playerList' =
              IF err = "none"
                THEN CreateList(playerList, pesConfig, commentaryId, playerName)
                ELSE playerList
         /\ result' = IF err = "none" THEN Returned(<<>>) ELSE Threw(err)
  /\ lastCall' = Call("create", commentaryId, playerName)
  /\ before' = playerList
  /\ UNCHANGED <<file, pesConfig, pc, metadata>>

\* UpdateList that removes the record and pushes the renamed one
UpdateList_MoveToEnd(players, index, playerName) ==
  Append(Splice1(players, index),
         [commentaryName |-> players[index + 1].commentaryName,
          playerName |-> playerName])

\* this.playerList after updatePlayer({commentaryId, playerName}) when
\* findIndex returned index >= 0
UpdateList(players, index, playerName) ==
  [players EXCEPT ![index + 1].playerName = playerName]

updatePlayer(commentaryId, playerName) ==
  /\ pc = "ready"
  /\ LET commentaryName == buildCommentaryName(pesConfig, commentaryId)
         index == FindIndex(playerList, commentaryName)
     IN  /\ playerList' = IF index = -1 THEN playerList
                          ELSE UpdateList(playerList, index, playerName)
         /\ result' = IF index = -1 THEN Threw(ErrNotFound) ELSE Returned(<<>>)
  /\ lastCall' = Call("update", commentaryId, playerName)
  /\ before' = playerList
  /\ UNCHANGED <<file, pesConfig, pc, metadata>>

\* deletePlayer without the index === -1 check: splice(-1, 1) removes the
\* last record
deletePlayer_NoCheck(commentaryId) ==
  /\ pc = "ready"
  /\ LET commentaryName == buildCommentaryName(pesConfig, commentaryId)
         index == FindIndex(playerList, commentaryName)
     IN  /\ playerList' = IF index = -1
                            THEN SubSeq(playerList, 1, Len(playerList) - 1)
                            ELSE Splice1(playerList, index)
         /\ result' = Returned(<<>>)
  /\ lastCall' = Call("delete", commentaryId, <<>>)
  /\ before' = playerList
  /\ UNCHANGED <<file, pesConfig, pc, metadata>>

deletePlayer(commentaryId) ==
  /\ pc = "ready"
  /\ LET commentaryName == buildCommentaryName(pesConfig, commentaryId)
         index == FindIndex(playerList, commentaryName)
     IN  /\ playerList' = IF index = -1 THEN playerList
                          ELSE Splice1(playerList, index)
         /\ result' = IF index = -1 THEN Threw(ErrNotFound) ELSE Returned(<<>>)
  /\ lastCall' = Call("delete", commentaryId, <<>>)
  /\ before' = playerList
  /\ UNCHANGED <<file, pesConfig, pc, metadata>>

\* save that sorts this.playerList itself instead of a copy
save_SortInPlace ==
  /\ pc = "ready"
  /\ LET b == Save(metadata, pesConfig, playerList)
     IN  result' = IF b.thrown THEN Threw("RangeError") ELSE Returned(b.bytes)
  /\ lastCall' = Call("save", 0, <<>>)
  /\ before' = playerList
  /\ playerList' = SortPlayers(playerList)
  /\ UNCHANGED <<file, pesConfig, pc, metadata>>

save ==
  /\ pc = "ready"
  /\ LET b == Save(metadata, pesConfig, playerList)
     IN  result' = IF b.thrown THEN Threw("RangeError") ELSE Returned(b.bytes)
  /\ lastCall' = Call("save", 0, <<>>)
  /\ before' = playerList
  /\ UNCHANGED <<file, pesConfig, pc, metadata, playerList>>

Next ==
  \/ parse
  \/ \E id \in Ids, name \in CreateNames : createPlayer(id, name)
  \/ \E id \in Ids, name \in UpdateNames : updatePlayer(id, name)
  \/ \E id \in Ids : deletePlayer(id)
  \/ save

Spec == Init /\ [][Next]_vars

NextFiles ==
  \/ parse
  \/ save

SpecFiles == InitFiles /\ [][NextFiles]_vars

(***************************************************************************)
(* Vocabulary of the properties                                            *)
(***************************************************************************)
\* the set of (key, displayName) pairs of a record collection
Pairs(players) ==
  {<<players[k].commentaryName, players[k].playerName>> : k \in 1..Len(players)}

\* no two records of the collection have the same key
UniqueKeys(players) ==
  \A i, j \in 1..Len(players) :
    i # j => players[i].commentaryName # players[j].commentaryName

\* the little-endian unsigned 32-bit integer at an offset of a buffer
U32At(buf, offset) ==
  buf[offset + 1] + 256 * buf[offset + 2] + 65536 * buf[offset + 3]
    + 16777216 * buf[offset + 4]

\* the last call was op and returned normally
Did(op) == lastCall.op = op /\ result.err = "none"

\* the last call was op and threw err
Rejected(op, err) == lastCall.op = op /\ result.err = err

\* id written with exactly six decimal digits, digit by digit
SixDigits(id) ==
  <<48 + ((id \div 100000) % 10), 48 + ((id \div 10000) % 10),
    48 + ((id \div 1000) % 10), 48 + ((id \div 100) % 10),
    48 + ((id \div 10) % 10), 48 + (id % 10)>>

\* the key a layout gives a six-digit id
KeyOf(cfg, id) == cfg.COMMENTARY_PREFIX \o SixDigits(id)

\* a name that round-trips: non-empty, trimmed, free of nulls and no longer
\* than the name field
PlainName(cfg, name) ==
  /\ name # <<>>
  /\ Trim(name) = name
  /\ \A k \in 1..Len(name) : name[k] # 0
  /\ Len(TextEncode(name)) <= cfg.PLAYER_NAME_LENGTH

\* a collection the round trip is claimed for
RoundTripInput(cfg, players) ==
  /\ UniqueKeys(players)
  /\ \A k \in 1..Len(players) :
       /\ Len(TextEncode(players[k].commentaryName)) <= cfg.COMMENTARY_NAME_LENGTH
       /\ PlainName(cfg, players[k].playerName)

(***************************************************************************)
(* Properties                                                              *)
(***************************************************************************)
\* C1: for both layouts, decoding the encoder's output gives back the same
\* set of (key, displayName) pairs, for every collection with unique keys
\* that fit the key field and plain names that fit the name field.
C1_RecordsRoundTrip ==
  (Did("save") /\ RoundTripInput(pesConfig, playerList))
    => /\ Parse(result.value, pesConfig).err = "none"
       /\ Pairs(Parse(result.value, pesConfig).players) = Pairs(playerList)

\* C2: after a successful decode and any sequence of create, update and
\* delete calls, no two records of the collection have the same key.
C2_KeysUnique == pc = "ready" => UniqueKeys(playerList)

\* C3: create is rejected with InvalidName for an empty or whitespace-only
\* name, with InvalidId for an id below 0 or above 999999 (the name being
\* acceptable), with DuplicateKey for an id whose key is already present (name
\* and id being acceptable); a rejected create leaves the collection as it was.
C3_CreateRejects ==
  lastCall.op = "create" =>
    LET blank == \A k \in 1..Len(lastCall.name) : lastCall.name[k] \in WhiteSpace
        outOfRange == lastCall.id < 0 \/ lastCall.id > 999999
        present == \E k \in 1..Len(before) :
                     before[k].commentaryName = KeyOf(pesConfig, lastCall.id)
    IN  /\ blank => result.err = ErrInvalidName
        /\ (outOfRange /\ ~blank) => result.err = ErrInvalidId
        /\ (present /\ ~outOfRange /\ ~blank) => result.err = ErrDuplicateKey
        /\ result.err # "none" => playerList = before

\* C3 witness: a create rejected as a duplicate on a non-empty collection,
\* and -1 / 1000000 are among the ids tried
C3_Witness ==
  /\ Rejected("create", ErrDuplicateKey)
  /\ before # <<>>
  /\ {-1, 1000000} \subseteq Ids

\* C4: update and delete on a key that no record has fail with NotFound and
\* leave the collection as it was.
C4_AbsentKeyNotFound ==
  (/\ lastCall.op \in {"update", "delete"}
   /\ \A k \in 1..Len(before) :
        before[k].commentaryName
          # pesConfig.COMMENTARY_PREFIX \o formatTo6String(lastCall.id))
    => /\ result.err = ErrNotFound
       /\ playerList = before

\* C4 witness: a delete that failed with NotFound on a non-empty collection
C4_Witness == Rejected("delete", ErrNotFound) /\ before # <<>>

\* C5: a successful create has 0 <= id <= 999999 and appends one record, with
\* key prefix + id in exactly six digits, at the end; the records present
\* before keep their positions, keys and names.  Layout A and id 57123 give
\* the key "EN_A1_P0_R057123".
C5_CreateAppends ==
  Did("create") =>
    /\ lastCall.id >= 0 /\ lastCall.id <= 999999
    /\ Len(playerList) = Len(before) + 1
    /\ SubSeq(playerList, 1, Len(before)) = before
    /\ playerList[Len(playerList)] =
         [commentaryName |-> KeyOf(pesConfig, lastCall.id),
          playerName |-> lastCall.name]
    /\ (pesConfig = PES2021Config /\ lastCall.id = 57123)
         => playerList[Len(playerList)].commentaryName =
              <<69, 78, 95, 65, 49, 95, 80, 48, 95, 82, 48, 53, 55, 49, 50, 51>>

\* C5 witness: create(57123, "Ana") succeeded with layout A on a non-empty
\* collection
C5_Witness ==
  /\ Did("create")
  /\ pesConfig = PES2021Config
  /\ lastCall.id = 57123
  /\ before # <<>>

\* C6: decode accepts a buffer exactly when it is at least
\* COMMENTARY_START_OFFSET bytes long, starts with "SEPD" and has zero bytes
\* at [24,36); a shorter buffer fails TooSmall whatever its bytes, a longer one
\* with a wrong magic or a non-zero reserved byte fails as an invalid format;
\* a failed decode produces neither metadata nor records.
C6_DecodeAccepts ==
  lastCall.op = "parse" =>
    LET longEnough == Len(file) >= pesConfig.COMMENTARY_START_OFFSET
        magicOk == Len(file) >= 4 /\ SubSeq(file, 1, 4) = <<83, 69, 80, 68>>
        reservedZero == \A k \in 25..36 : k <= Len(file) => file[k] = 0
    IN  /\ result.err = "none" <=> (longEnough /\ magicOk /\ reservedZero)
        /\ ~longEnough => result.err = ErrTooSmall
        /\ (longEnough /\ ~(magicOk /\ reservedZero))
             => result.err = ErrInvalidFile
        /\ result.err = "none" => pc = "ready"
        /\ result.err # "none"
             => pc = "failed" /\ metadata = NoMetadata /\ playerList = <<>>

\* C6 witness: a 100-byte buffer with a wrong magic, decoded with layout A,
\* failed TooSmall
C6_Witness ==
  /\ Rejected("parse", ErrTooSmall)
  /\ pesConfig = PES2021Config
  /\ Len(file) = 100
  /\ file[4] # 68

\* C7: the metadata of an instance is bytes [0,16) and [20,36) of the input
\* whatever mutations were applied, the encoder output carries the same bytes
\* at [0,16) and [20,36), and decoding the output gives the same metadata.
C7_MetadataRoundTrip ==
  /\ pc = "ready"
       => metadata = [first |-> SubSeq(file, 1, 16),
                      second |-> SubSeq(file, 21, 36)]
  /\ Did("save")
       => /\ SubSeq(result.value, 1, 16) = SubSeq(file, 1, 16)
          /\ SubSeq(result.value, 21, 36) = SubSeq(file, 21, 36)
          /\ Parse(result.value, pesConfig).metadata
               = [first |-> SubSeq(file, 1, 16), second |-> SubSeq(file, 21, 36)]

\* C7 witness: an encode of a file with non-zero opaque bytes, after the
\* one-record collection decoded from it has grown to two records
C7_Witness ==
  /\ Did("save")
  /\ file[5] = 7 /\ file[21] = 7
  /\ Len(playerList) = 2

\* C8: the encoder output of n records has COMMENTARY_START_OFFSET +
\* n * RECORD_SIZE bytes and decodes to exactly n records (n = 0 included).
C8_OutputSize ==
  lastCall.op = "save" =>
    /\ result.err = "none"
    /\ Len(result.value) = pesConfig.COMMENTARY_START_OFFSET
                             + Len(playerList) * pesConfig.RECORD_SIZE
    /\ Parse(result.value, pesConfig).err = "none"
    /\ Len(Parse(result.value, pesConfig).players) = Len(playerList)

\* C8 witness: an encode of two records with layout A
C8_Witness ==
  /\ Did("save")
  /\ pesConfig = PES2021Config
  /\ Len(playerList) = 2

\* the number of records whose name starts, uppercased, with one of the
\* first n letters of the alphabet
StartingWithin(players, n) ==
  Cardinality({k \in 1..Len(players) :
                 \E L \in 65..(64 + n) :
                   FirstCharUpper(players[k].playerName) = <<L>>})

\* C9: in every encoder output the integers at offsets 16, 136 and 140 all
\* equal the number of records, also when the cumulative count of the letter
\* Z is a different number.
C9_CountFields ==
  Did("save") =>
    /\ U32At(result.value, 16) = Len(playerList)
    /\ U32At(result.value, 136) = Len(playerList)
    /\ U32At(result.value, 140) = Len(playerList)

\* C9 witness: an encode of a collection in which some name starts with no
\* letter, so that the count after Z is not the record count
C9_Witness ==
  /\ Did("save")
  /\ Len(playerList) >= 1
  /\ StartingWithin(playerList, 26) # Len(playerList)

\* C10: for i = 0..24 the integer at 36 + 4*i is the number of records whose
\* name starts with one of the first i + 1 letters; the 25 values do not
\* decrease, none exceeds the value at 136, and that value is the record count.
C10_AlphabetIndex ==
  Did("save") =>
    /\ \A i \in 0..24 :
         /\ U32At(result.value, 36 + 4 * i) = StartingWithin(playerList, i + 1)
         /\ U32At(result.value, 36 + 4 * i) <= U32At(result.value, 136)
    /\ \A i \in 0..23 :
         U32At(result.value, 36 + 4 * i) <= U32At(result.value, 40 + 4 * i)
    /\ U32At(result.value, 136) = Len(playerList)

\* C10 witness: an encode whose index rises between A and Y
C10_Witness ==
  /\ Did("save")
  /\ U32At(result.value, 36) >= 1
  /\ U32At(result.value, 36) < U32At(result.value, 132)

\* C11: a header-valid buffer of length L decodes, without error, to exactly
\* floor((L - COMMENTARY_START_OFFSET) / RECORD_SIZE) records, the i-th read
\* from the stride at COMMENTARY_START_OFFSET + i * RECORD_SIZE, in file order,
\* a trailing partial stride being ignored.  With layout A, the records
\* ("EN_A1_P0_R000001", "Ana") and ("EN_A1_P0_R000002", "Bob") at 144 and 240
\* decode to a list of length 2 with the names "Ana" and "Bob".
C11_DecodeCount ==
  (lastCall.op = "parse" /\ Len(file) >= pesConfig.COMMENTARY_START_OFFSET
     /\ isBinaryValid(file))
    => LET start == pesConfig.COMMENTARY_START_OFFSET
           size == pesConfig.RECORD_SIZE
           keyLen == pesConfig.COMMENTARY_NAME_LENGTH
           nameAt == keyLen + pesConfig.PLAYER_NAME_OFFSET
       IN  /\ result.err = "none"
           /\ Len(playerList) = (Len(file) - start) \div size
           /\ \A i \in 0..(Len(playerList) - 1) :
                LET base == start + i * size
                IN  playerList[i + 1] =
                      [commentaryName |->
                         cleanString(SubSeq(file, base + 1, base + keyLen)),
                       playerName |->
                         cleanString(SubSeq(file, base + nameAt + 1,
                                            base + nameAt
                                              + pesConfig.PLAYER_NAME_LENGTH))]
           /\ (/\ pesConfig = PES2021Config
               /\ Len(file) >= 336 /\ Len(file) < 432
               /\ SubSeq(file, 145, 160) = TextEncode(KeyOf(pesConfig, 1))
               /\ SubSeq(file, 177, 240) = StrAna \o Rep(0, 61)
               /\ SubSeq(file, 241, 256) = TextEncode(KeyOf(pesConfig, 2))
               /\ SubSeq(file, 273, 336) = StrBob \o Rep(0, 61))
                => /\ Len(playerList) = 2
                   /\ playerList[1].playerName = <<65, 110, 97>>
                   /\ playerList[2].playerName = <<66, 111, 98>>

\* C11 witness: layout A has decoded "Ana" and "Bob" from the strides at 144
\* and 240 of a buffer that ends with a partial stride of 10 bytes
C11_Witness ==
  /\ Did("parse")
  /\ pesConfig = PES2021Config
  /\ Len(file) = 346
  /\ SubSeq(file, 177, 179) = StrAna
  /\ SubSeq(file, 273, 275) = StrBob
  /\ Len(playerList) = 2

\* C12 as stated: during encode the running sum of the 26 letter counts, once
\* 'Z' has been added, equals the total number of records of the collection.
C12_SumAfterZIsTotal ==
  Did("save") =>
    U32At(SaveIndexed(metadata, pesConfig, playerList).bytes, 136)
      = Len(playerList)

\* C12 amended: during encode the running sum of the 26 letter counts, once
\* 'Z' has been added, equals the number of records whose displayName has a
\* first character that uppercases to one of A..Z; it never exceeds the total
\* number of records and equals it when every displayName starts so.
C12_SumAfterZIsLetterCount ==
  Did("save") =>
    LET sumAfterZ == U32At(SaveIndexed(metadata, pesConfig, playerList).bytes, 136)
        letterFirst == {k \in 1..Len(playerList) :
                          /\ playerList[k].playerName # <<>>
                          /\ \E L \in 65..90 :
                               ToUpperCase(playerList[k].playerName[1]) = <<L>>}
    IN  /\ sumAfterZ = Cardinality(letterFirst)
        /\ sumAfterZ <= Len(playerList)
        /\ Cardinality(letterFirst) = Len(playerList)
             => sumAfterZ = Len(playerList)

\* C12 witness: an encode of a collection with a name that starts with a
\* letter and a name that starts with none
C12_Witness ==
  /\ Did("save")
  /\ StartingWithin(playerList, 26) >= 1
  /\ StartingWithin(playerList, 26) < Len(playerList)

\* the text before the first null of a string (the whole string when it has
\* no null)
BeforeFirstNull(s) ==
  LET nulls == {k \in 1..Len(s) : s[k] = 0}
  IN  IF nulls = {} THEN s
      ELSE SubSeq(s, 1, (CHOOSE k \in nulls : \A m \in nulls : k <= m) - 1)

\* C13: the string decoded from a field is the text before the first null
\* byte with leading and trailing whitespace trimmed: everything from the first
\* null on is discarded, whatever follows it (nulls, spaces, newlines, letters).
C13_DecodeCutsAtFirstNull ==
  Did("parse") =>
    \A i \in 0..(Len(playerList) - 1) :
      LET base == pesConfig.COMMENTARY_START_OFFSET + i * pesConfig.RECORD_SIZE
          nameAt == base + pesConfig.COMMENTARY_NAME_LENGTH
                      + pesConfig.PLAYER_NAME_OFFSET
          keyField == SubSeq(file, base + 1, base + pesConfig.COMMENTARY_NAME_LENGTH)
          nameField == SubSeq(file, nameAt + 1,
                              nameAt + pesConfig.PLAYER_NAME_LENGTH)
      IN  /\ playerList[i + 1].commentaryName
               = Trim(BeforeFirstNull(TextDecode(keyField)))
          /\ playerList[i + 1].playerName
               = Trim(BeforeFirstNull(TextDecode(nameField)))

\* C14: a successful update changes only the displayName of the record with
\* the matching key (the first one in collection order): that record keeps its
\* key and its position, the length of the collection is unchanged and every
\* other record keeps its position, key and displayName.
C14_UpdateInPlace ==
  Did("update") =>
    LET key == KeyOf(pesConfig, lastCall.id % 1000000)
        hits == {k \in 1..Len(before) : before[k].commentaryName = key}
    IN  /\ hits # {}
        /\ Len(playerList) = Len(before)
        /\ \A k \in 1..Len(before) :
             IF k \in hits /\ \A m \in hits : k <= m
               THEN /\ playerList[k].commentaryName = key
                    /\ playerList[k].playerName = lastCall.name
               ELSE playerList[k] = before[k]

\* C14 witness: an update gave the first of two records a new name
C14_Witness ==
  /\ Did("update")
  /\ Len(before) = 2
  /\ playerList[1].playerName # before[1].playerName
  /\ playerList[2] = before[2]

\* C15: a successful delete removes exactly one record, the first one in
\* collection order with the matching key: the length decreases by one, the
\* remaining records keep their relative order, keys and displayNames, and a
\* create with the same id made immediately afterwards succeeds.
C15_DeleteThenCreate ==
  Did("delete") =>
    LET key == KeyOf(pesConfig, lastCall.id % 1000000)
        hits == {k \in 1..Len(before) : before[k].commentaryName = key}
        first == CHOOSE k \in hits : \A m \in hits : k <= m
    IN  /\ hits # {}
        /\ Len(playerList) = Len(before) - 1
        /\ playerList = SubSeq(before, 1, first - 1)
                          \o SubSeq(before, first + 1, Len(before))
        /\ CreateError(playerList, pesConfig, lastCall.id, StrAna) = "none"

\* C16: update and delete with an id of more than six digits (id >= 1000000)
\* act on the record whose key is the prefix + (id mod 1000000) in six digits:
\* they succeed when that record is present, fail NotFound only when it is
\* absent and never fail InvalidId; create with such an id (and an acceptable
\* name) is rejected with InvalidId.
C16_LongIdNormalised ==
  lastCall.id >= 1000000 =>
    LET key == KeyOf(pesConfig, lastCall.id % 1000000)
        hits == {k \in 1..Len(before) : before[k].commentaryName = key}
        first == CHOOSE k \in hits : \A m \in hits : k <= m
    IN  /\ lastCall.op \in {"update", "delete"} =>
             /\ result.err # ErrInvalidId
             /\ hits = {} <=> result.err = ErrNotFound
             /\ hits # {} <=> result.err = "none"
        /\ Did("update") =>
             /\ playerList[first].commentaryName = key
             /\ playerList[first].playerName = lastCall.name
        /\ Did("delete") =>
             playerList = SubSeq(before, 1, first - 1)
                            \o SubSeq(before, first + 1, Len(before))
        /\ (lastCall.op = "create" /\ Trim(lastCall.name) # <<>>) =>
             /\ result.err = ErrInvalidId
             /\ playerList = before

\* C16 witness: update with id 1000000 renamed the record of id 0
C16_Witness ==
  /\ Did("update")
  /\ lastCall.id = 1000000
  /\ \E k \in 1..Len(playerList) :
       /\ playerList[k].commentaryName = KeyOf(pesConfig, 0)
       /\ playerList[k].playerName = lastCall.name
       /\ before[k].playerName # lastCall.name

\* the first width bytes of a byte sequence, zero-padded to width bytes
Field(bytes, width) ==
  SubSeq(bytes, 1, Min(Len(bytes), width))
    \o Rep(0, width - Min(Len(bytes), width))

\* C17: for both layouts and keys and names of any length, the i-th record in
\* sorted order has its key bytes, truncated to the key width, only in
\* [base, base + keyLen) and its name bytes, truncated to padding + name width,
\* only in [base + keyLen, base + keyLen + padding + nameLen), with base =
\* start + i * stride; every other byte of the stride is zero, the header is
\* what it was before the records were written, and no write goes past the
\* end of the buffer.
C17_WritesStayInside ==
  lastCall.op = "save" =>
    LET start == pesConfig.COMMENTARY_START_OFFSET
        size == pesConfig.RECORD_SIZE
        keyLen == pesConfig.COMMENTARY_NAME_LENGTH
        nameLen == pesConfig.PLAYER_NAME_OFFSET + pesConfig.PLAYER_NAME_LENGTH
        sorted == sortAndCountPlayers(playerList).sorted
    IN  /\ result.err = "none"
        /\ Len(result.value) = start + Len(playerList) * size
        /\ SubSeq(result.value, 1, start)
             = SubSeq(SaveHeader(metadata, pesConfig, playerList).bytes, 1, start)
        /\ \A i \in 0..(Len(sorted) - 1) :
             SubSeq(result.value, start + i * size + 1, start + (i + 1) * size)
               = Field(TextEncode(sorted[i + 1].commentaryName), keyLen)
                   \o Field(TextEncode(sorted[i + 1].playerName), nameLen)
                   \o Rep(0, size - keyLen - nameLen)

\* C17 witness: an encode of two records, with each layout's widths, in which
\* the key and the name of the first record written are longer than their
\* fields
C17_Witness ==
  /\ Did("save")
  /\ Len(playerList) = 2
  /\ LET first == sortAndCountPlayers(playerList).sorted[1]
     IN  /\ Len(TextEncode(first.commentaryName))
               > pesConfig.COMMENTARY_NAME_LENGTH
         /\ Len(TextEncode(first.playerName))
               > pesConfig.PLAYER_NAME_OFFSET + pesConfig.PLAYER_NAME_LENGTH

\* C18: save has no effect on the state: the collection has afterwards the
\* length, the order and the records it had and the metadata is unchanged;
\* a save that directly follows a save returns the same bytes.
C18_SaveIsPure ==
  [][lastCall'.op = "save" =>
       /\ playerList' = playerList
       /\ metadata' = metadata
       /\ pc' = pc
       /\ lastCall.op = "save" => result' = result]_vars

\* C18 witness: save has returned for a two-record collection that is not in
\* alphabetical order and still is not
C18_Witness ==
  /\ Did("save")
  /\ Len(playerList) = 2
  /\ before = playerList
  /\ ComparePlayers(playerList[1], playerList[2]) > 0

\* the orders in which n records can be written: the permutations of 1..n
Orders(n) ==
  {p \in [1..n -> 1..n] : \A i, j \in 1..n : i # j => p[i] # p[j]}

\* C19: the records written by an encode are a permutation of the collection
\* (each record written once, also one whose name is empty or starts with no
\* letter), in non-decreasing order of displayName under the case-insensitive
\* comparison, records that compare equal staying in collection order; a
\* record whose first character is outside A-Z is counted in no letter bucket.
C19_SortedPermutation ==
  Did("save") =>
    LET n == Len(playerList)
        start == pesConfig.COMMENTARY_START_OFFSET
        size == pesConfig.RECORD_SIZE
        keyLen == pesConfig.COMMENTARY_NAME_LENGTH
        nameLen == pesConfig.PLAYER_NAME_OFFSET + pesConfig.PLAYER_NAME_LENGTH
        Written(i) == SubSeq(result.value, start + (i - 1) * size + 1,
                             start + i * size)
        Encoded(r) == Field(TextEncode(r.commentaryName), keyLen)
                        \o Field(TextEncode(r.playerName), nameLen)
                        \o Rep(0, size - keyLen - nameLen)
        letterFirst == {k \in 1..n :
                          /\ playerList[k].playerName # <<>>
                          /\ \E L \in 65..90 :
                               ToUpperCase(playerList[k].playerName[1]) = <<L>>}
    IN  /\ Len(result.value) = start + n * size
        /\ \E p \in Orders(n) :
             /\ \A i \in 1..n : Written(i) = Encoded(playerList[p[i]])
             /\ \A i \in 1..(n - 1) :
                  /\ ComparePlayers(playerList[p[i]], playerList[p[i + 1]]) <= 0
                  /\ ComparePlayers(playerList[p[i]], playerList[p[i + 1]]) = 0
                       => p[i] < p[i + 1]
        /\ U32At(SaveIndexed(metadata, pesConfig, playerList).bytes, 136)
             = Cardinality(letterFirst)
        /\ \A i \in 0..24 :
             U32At(result.value, 36 + 4 * i)
               = Cardinality({k \in letterFirst :
                    ToUpperCase(playerList[k].playerName[1])[1] <= 65 + i})

\* C19 witness: an encode of two records, the first with a name that sorts
\* after that of the second, the second with an empty name
C19_Witness ==
  /\ Did("save")
  /\ Len(playerList) = 2
  /\ playerList[2].playerName = <<>>
  /\ ComparePlayers(playerList[1], playerList[2]) > 0
  /\ SubSeq(result.value, pesConfig.COMMENTARY_START_OFFSET + 1,
            pesConfig.COMMENTARY_START_OFFSET + pesConfig.COMMENTARY_NAME_LENGTH)
       = TextEncode(playerList[2].commentaryName)

\* a buffer with every byte of the count field [16,20) and of the index
\* region [36, COMMENTARY_START_OFFSET) set to g
Scrub(buf, cfg, g) ==
  SubSeq(buf, 1, 16) \o Rep(g, 4) \o SubSeq(buf, 21, 36)
    \o Rep(g, cfg.COMMENTARY_START_OFFSET - 36)
    \o SubSeq(buf, cfg.COMMENTARY_START_OFFSET + 1, Len(buf))

\* C20: decode does not read the stored count and index fields: a header-valid
\* buffer and any buffer of the same length that differs from it only in
\* bytes [16,20) and [36, COMMENTARY_START_OFFSET) decode to the same metadata
\* and the same records, and the number of records follows from the length of
\* the buffer alone, not from the counts at 16, 136 and 140.
C20_CountFieldsUnread ==
  Did("parse") =>
    /\ \A g \in {0, 1, 255} :
         /\ Len(Scrub(file, pesConfig, g)) = Len(file)
         /\ Parse(Scrub(file, pesConfig, g), pesConfig)
              = [err |-> "none", metadata |-> metadata, players |-> playerList]
    /\ Len(playerList)
         = (Len(file) - pesConfig.COMMENTARY_START_OFFSET)
             \div pesConfig.RECORD_SIZE

\* C20 witness: a decode of a buffer whose counts at 16, 136 and 140 all
\* differ from the number of records it holds
C20_Witness ==
  /\ Did("parse")
  /\ Len(playerList) >= 1
  /\ U32At(file, 16) # Len(playerList)
  /\ file[137] # 0 /\ file[141] # 0

\* C21: every encoder output is decodable: after a successful decode with
\* either layout and any sequence of create, update and delete calls (every
\* record deleted included), save returns a buffer of at least
\* COMMENTARY_START_OFFSET bytes that begins with "SEPD" and has zero bytes at
\* [24,36), so that decoding it with the same layout fails neither as too
\* small nor as an invalid format.
C21_OutputDecodable ==
  lastCall.op = "save" =>
    /\ result.err = "none"
    /\ Len(result.value) >= pesConfig.COMMENTARY_START_OFFSET
    /\ SubSeq(result.value, 1, 4) = <<83, 69, 80, 68>>
    /\ \A k \in 25..36 : result.value[k] = 0
    /\ Parse(result.value, pesConfig).err \notin {ErrTooSmall, ErrInvalidFile}
    /\ Parse(result.value, pesConfig).err = "none"

\* C21 witness: an encode of the empty collection left after every record
\* decoded from a file with records was deleted
C21_Witness ==
  /\ Did("save")
  /\ playerList = <<>>
  /\ Len(file) >= pesConfig.COMMENTARY_START_OFFSET + pesConfig.RECORD_SIZE
  /\ Len(result.value) = pesConfig.COMMENTARY_START_OFFSET

====
